---- MODULE Spec2Model ----
(***************************************************************************)
(* Meta-protocol command encoder and response interpreter of the memcache  *)
(* client (async_memcache/meta_protocol.rs): meta_get, meta_set,           *)
(* meta_delete, meta_increment and meta_decrement over one connection.     *)
(*                                                                         *)
(* Byte strings are sequences of one-character strings.  An Option is a    *)
(* sequence of length 0 (None) or 1 (Some).                                *)
(***************************************************************************)
EXTENDS Integers, Sequences, FiniteSets, TLC

VARIABLES
    pc,        \* position of the caller: "idle", "running" (suspended inside the
               \* encoding), "sent" (flushed, awaiting the read), "done" (returned),
               \* "dropped" (the call's future was dropped before it returned)
    call,      \* Option: the arguments of the operation in progress or last returned
    ncalls,    \* number of operation calls made on this connection
    wire,      \* bytes the current call has written to the connection
    io,        \* connection calls the current operation completed: "write", "flush", "read"
    pending,   \* flushed commands the server has not processed yet
    served,    \* Option: what the server did with the current call's command
    inbound,   \* classified responses the server produced, not yet read
    resp,      \* Option: the response the current call's drive_receive returned
    result,    \* what the current call returned
    broken,    \* a transport error happened on this connection
    unflushed, \* bytes written to the connection and not flushed yet
    reused,    \* a call was made after a transport error or a dropped call
    abandoned  \* number of calls that met a transport error or were dropped

vars == <<pc, call, ncalls, wire, io, pending, served, inbound, resp, result, broken,
          unflushed, reused, abandoned>>

----------------------------------------------------------------------------
(* Bounds of the model *)

MaxFlags == 2      \* longest caller flag list
MaxRecords == 2    \* most records in one data response
MaxCalls == 3      \* operation calls on one connection (SpecConn)
MaxAbandoned == 1  \* calls on one connection that fail in the transport or are dropped

(* Program constants *)

MAX_KEY_LENGTH == 250
MAX_OPAQUE_LENGTH == 32

----------------------------------------------------------------------------
(* Options and byte strings *)

None == <<>>
Some(x) == <<x>>
is_some(o) == Len(o) = 1
unwrap(o) == o[1]

CR == "\r"
LF == "\n"
CRLF == <<CR, LF>>
SP == " "

Rep(c, n) == [i \in 1..n |-> c]

RECURSIVE Concat(_)
Concat(chunks) ==
    IF chunks = <<>> THEN <<>> ELSE Head(chunks) \o Concat(Tail(chunks))

DigitChars == <<"0", "1", "2", "3", "4", "5", "6", "7", "8", "9">>

\* u64::to_string / usize::to_string: the decimal digits, no sign, no padding
RECURSIVE to_string(_)
to_string(n) ==
    IF n < 10 THEN <<DigitChars[n + 1]>>
    ELSE to_string(n \div 10) \o <<DigitChars[(n % 10) + 1]>>

\* str::starts_with(char)
starts_with(flag, c) == Len(flag) > 0 /\ flag[1] = c

----------------------------------------------------------------------------
(* Results: Result<Option<MetaValue>, Error>, or the panic of Vec::remove *)

OkNone == [kind |-> "Ok", value |-> None, err |-> "", status |-> ""]
OkSome(item) == [kind |-> "Ok", value |-> Some(item), err |-> "", status |-> ""]
Pending == [kind |-> "Pending", value |-> None, err |-> "", status |-> ""]
Panic == [kind |-> "Panic", value |-> None, err |-> "", status |-> ""]
Err(e, s) == [kind |-> "Err", value |-> None, err |-> e, status |-> s]

\* Error::Protocol(status)
Protocol(s) == Err("Protocol", s)
\* a transport error of the connection (Error::Io)
IoError == Err("Io", "")

\* impl From<Status> for Error (`s.into()`): the error carrying the status
StatusIntoError(s) == Protocol(s)

----------------------------------------------------------------------------
(* Validators: Ok is None, a failure is Some(error) *)

validate_key_length(key) ==
    IF Len(key) > MAX_KEY_LENGTH THEN Some(Err("Validation", "KeyTooLong")) ELSE None

validate_opaque_length(opaque) ==
    IF Len(opaque) > MAX_OPAQUE_LENGTH
    THEN Some(Err("Validation", "OpaqueTooLong")) ELSE None

\* mutant: the key's length is not checked
Validate_SkipKey(a) ==
    IF is_some(a.opaque) THEN validate_opaque_length(unwrap(a.opaque)) ELSE None

\* mutant: the opaque's length is not checked
Validate_SkipOpaque(a) == validate_key_length(a.key)

\* lines 160-164 (the same in the five operations): the key, then the opaque
Validate(a) ==
    IF is_some(validate_key_length(a.key)) THEN validate_key_length(a.key)
    ELSE IF is_some(a.opaque) THEN validate_opaque_length(unwrap(a.opaque))
    ELSE None

----------------------------------------------------------------------------
(* Writers: the sequence of chunks, one chunk per write_all call *)

check_and_write_opaque(opaque) ==
    IF is_some(opaque) THEN << <<SP, "O">>, unwrap(opaque) >> ELSE <<>>

\* the filter of check_and_write_meta_flags
MetaFlagDropped(flag, opaque) ==
    \/ starts_with(flag, "M")
    \/ starts_with(flag, "q")
    \/ (starts_with(flag, "O") /\ is_some(opaque))

RECURSIVE WriteMetaFlags(_, _)
WriteMetaFlags(flags, opaque) ==
    IF flags = <<>> THEN <<>>
    ELSE (IF MetaFlagDropped(Head(flags), opaque) THEN <<>>
          ELSE << <<SP>>, Head(flags) >>)
         \o WriteMetaFlags(Tail(flags), opaque)

check_and_write_meta_flags(meta_flags, opaque) ==
    IF is_some(meta_flags) THEN WriteMetaFlags(unwrap(meta_flags), opaque) ELSE <<>>

check_and_write_quiet_mode(is_quiet) ==
    IF is_quiet THEN << <<SP, "q", CR, LF, "m", "n", CR, LF>> >> ELSE << CRLF >>

\* meta_increment lines 306-311, meta_decrement lines 367-372
WriteDelta(delta) ==
    IF is_some(delta) /\ unwrap(delta) # 1
    THEN << <<SP, "D">>, to_string(unwrap(delta)) >> ELSE <<>>

\* mutant: caller O flags are kept beside the explicit opaque
ArithFlagDropped_KeepO(flag, delta, opaque) ==
    \/ starts_with(flag, "M")
    \/ starts_with(flag, "q")
    \/ (starts_with(flag, "D") /\ is_some(delta))

\* mutant: caller M flags are kept
ArithFlagDropped_KeepM(flag, delta, opaque) ==
    \/ starts_with(flag, "q")
    \/ (starts_with(flag, "D") /\ is_some(delta))
    \/ (starts_with(flag, "O") /\ is_some(opaque))

\* mutant: caller q flags are kept
ArithFlagDropped_KeepQ(flag, delta, opaque) ==
    \/ starts_with(flag, "M")
    \/ (starts_with(flag, "D") /\ is_some(delta))
    \/ (starts_with(flag, "O") /\ is_some(opaque))

\* mutant: caller D flags are dropped only beside a delta that is written
ArithFlagDropped_KeepDBesideOne(flag, delta, opaque) ==
    \/ starts_with(flag, "M")
    \/ starts_with(flag, "q")
    \/ (starts_with(flag, "D") /\ is_some(delta) /\ unwrap(delta) # 1)
    \/ (starts_with(flag, "O") /\ is_some(opaque))

\* the condition of meta_increment lines 317-320, meta_decrement lines 378-381
ArithFlagDropped(flag, delta, opaque) ==
    \/ starts_with(flag, "M")
    \/ starts_with(flag, "q")
    \/ (starts_with(flag, "D") /\ is_some(delta))
    \/ (starts_with(flag, "O") /\ is_some(opaque))

\* mutant: the kept flags are written last to first
RECURSIVE WriteArithFlagList_Reversed(_, _, _)
WriteArithFlagList_Reversed(flags, delta, opaque) ==
    IF flags = <<>> THEN <<>>
    ELSE WriteArithFlagList_Reversed(Tail(flags), delta, opaque)
         \o (IF ArithFlagDropped(Head(flags), delta, opaque) THEN <<>>
             ELSE << <<SP>>, Head(flags) >>)

RECURSIVE WriteArithFlagList(_, _, _)
WriteArithFlagList(flags, delta, opaque) ==
    IF flags = <<>> THEN <<>>
    ELSE (IF ArithFlagDropped(Head(flags), delta, opaque) THEN <<>>
          ELSE << <<SP>>, Head(flags) >>)
         \o WriteArithFlagList(Tail(flags), delta, opaque)

\* meta_increment lines 313-328, meta_decrement lines 374-389
WriteArithFlags(meta_flags, delta, opaque) ==
    IF is_some(meta_flags)
    THEN WriteArithFlagList(unwrap(meta_flags), delta, opaque) ELSE <<>>

meta_get_writes(a) ==
    << <<"m", "g", SP>>, a.key >>
    \o check_and_write_opaque(a.opaque)
    \o check_and_write_meta_flags(a.meta_flags, a.opaque)
    \o check_and_write_quiet_mode(a.is_quiet)

\* mutant: the q flag is written but the sentinel is forgotten
meta_set_writes_NoSentinel(a) ==
    << <<"m", "s", SP>>, a.key, <<SP>>, to_string(Len(a.value)) >>
    \o check_and_write_opaque(a.opaque)
    \o check_and_write_meta_flags(a.meta_flags, a.opaque)
    \o (IF a.is_quiet THEN << <<SP, "q">> >> ELSE <<>>)
    \o << CRLF, a.value, CRLF >>

\* mutant: the length written counts the payload's terminator
meta_set_writes_LenWithTerminator(a) ==
    << <<"m", "s", SP>>, a.key, <<SP>>, to_string(Len(a.value) + 2) >>
    \o check_and_write_opaque(a.opaque)
    \o check_and_write_meta_flags(a.meta_flags, a.opaque)
    \o (IF a.is_quiet THEN << <<SP, "q">> >> ELSE <<>>)
    \o << CRLF, a.value, CRLF >>
    \o (IF a.is_quiet THEN << <<"m", "n", CR, LF>> >> ELSE <<>>)

meta_set_writes(a) ==
    << <<"m", "s", SP>>, a.key, <<SP>>, to_string(Len(a.value)) >>
    \o check_and_write_opaque(a.opaque)
    \o check_and_write_meta_flags(a.meta_flags, a.opaque)
    \o (IF a.is_quiet THEN << <<SP, "q">> >> ELSE <<>>)
    \o << CRLF, a.value, CRLF >>
    \o (IF a.is_quiet THEN << <<"m", "n", CR, LF>> >> ELSE <<>>)

meta_delete_writes(a) ==
    << <<"m", "d", SP>>, a.key >>
    \o check_and_write_opaque(a.opaque)
    \o check_and_write_meta_flags(a.meta_flags, a.opaque)
    \o check_and_write_quiet_mode(a.is_quiet)

meta_increment_writes(a) ==
    << <<"m", "a", SP>>, a.key >>
    \o check_and_write_opaque(a.opaque)
    \o WriteDelta(a.delta)
    \o WriteArithFlags(a.meta_flags, a.delta, a.opaque)
    \o check_and_write_quiet_mode(a.is_quiet)

\* mutant: the mode flag is written after the opaque flag
meta_decrement_writes_MDAfterOpaque(a) ==
    << <<"m", "a", SP>>, a.key >>
    \o check_and_write_opaque(a.opaque)
    \o << <<SP, "M", "D">> >>
    \o WriteDelta(a.delta)
    \o WriteArithFlags(a.meta_flags, a.delta, a.opaque)
    \o check_and_write_quiet_mode(a.is_quiet)

meta_decrement_writes(a) ==
    << <<"m", "a", SP>>, a.key, <<SP, "M", "D">> >>
    \o check_and_write_opaque(a.opaque)
    \o WriteDelta(a.delta)
    \o WriteArithFlags(a.meta_flags, a.delta, a.opaque)
    \o check_and_write_quiet_mode(a.is_quiet)

----------------------------------------------------------------------------
(* Responses: MetaResponse::Status(s) or MetaResponse::Data(Option<Vec>) *)

Statuses == {"Stored", "NotStored", "Deleted", "Exists", "NotFound", "NoOp"}

StatusResp(s) == [kind |-> "Status", status |-> s, data |-> None]
DataResp(d) == [kind |-> "Data", status |-> "", data |-> d]

\* mutant: the last record is taken instead of the first
TakeLast(d) ==
    IF ~is_some(d) THEN OkNone
    ELSE IF unwrap(d) = <<>> THEN Panic
    ELSE OkSome(unwrap(d)[Len(unwrap(d))])

\* lines 181-186: d.map(|mut items| { let item = items.remove(0); Ok(item) }).transpose()
\* Vec::remove(0) panics on an empty vector
TakeFirst(d) ==
    IF ~is_some(d) THEN OkNone
    ELSE IF unwrap(d) = <<>> THEN Panic
    ELSE OkSome(Head(unwrap(d)))

meta_get_result(r) ==
    IF r.kind = "Status" THEN
        IF r.status = "NotFound" THEN OkNone
        ELSE IF r.status = "NoOp" THEN OkNone
        ELSE StatusIntoError(r.status)
    ELSE TakeFirst(r.data)

meta_set_result(r) ==
    IF r.kind = "Status" THEN
        IF r.status = "Stored" THEN OkNone
        ELSE IF r.status = "NoOp" THEN OkNone
        ELSE StatusIntoError(r.status)
    ELSE TakeFirst(r.data)

\* mutant: the status exists is taken for a success
meta_delete_result_ExistsOk(r) ==
    IF r.kind = "Status" THEN
        IF r.status = "Deleted" THEN OkNone
        ELSE IF r.status = "Exists" THEN OkNone
        ELSE IF r.status = "NoOp" THEN OkNone
        ELSE StatusIntoError(r.status)
    ELSE TakeFirst(r.data)

meta_delete_result(r) ==
    IF r.kind = "Status" THEN
        IF r.status = "Deleted" THEN OkNone
        ELSE IF r.status = "Exists" THEN Protocol("Exists")
        ELSE IF r.status = "NoOp" THEN OkNone
        ELSE StatusIntoError(r.status)
    ELSE TakeFirst(r.data)

meta_increment_result(r) ==
    IF r.kind = "Status" THEN
        IF r.status = "Stored" THEN OkNone
        ELSE IF r.status = "NoOp" THEN OkNone
        ELSE StatusIntoError(r.status)
    ELSE TakeFirst(r.data)

meta_decrement_result(r) ==
    IF r.kind = "Status" THEN
        IF r.status = "Stored" THEN OkNone
        ELSE IF r.status = "NoOp" THEN OkNone
        ELSE StatusIntoError(r.status)
    ELSE TakeFirst(r.data)

Writes(a) ==
    CASE a.op = "get" -> meta_get_writes(a)
      [] a.op = "set" -> meta_set_writes(a)
      [] a.op = "delete" -> meta_delete_writes(a)
      [] a.op = "increment" -> meta_increment_writes(a)
      [] a.op = "decrement" -> meta_decrement_writes(a)

Classify(op, r) ==
    CASE op = "get" -> meta_get_result(r)
      [] op = "set" -> meta_set_result(r)
      [] op = "delete" -> meta_delete_result(r)
      [] op = "increment" -> meta_increment_result(r)
      [] op = "decrement" -> meta_decrement_result(r)

----------------------------------------------------------------------------
(* The server's side of the connection *)

\* index of the first line terminator of w, 0 when there is none
FindCRLF(w) ==
    LET at == {i \in 1..(Len(w) - 1) : w[i] = CR /\ w[i + 1] = LF}
    IN  IF at = {} THEN 0 ELSE CHOOSE i \in at : \A j \in at : i <= j

\* the tokens of a line, separated by single spaces
Split(s) ==
    LET at == {i \in 1..Len(s) : s[i] = SP}
        n == Cardinality(at)
        pos == [k \in 1..n |-> CHOOSE i \in at : Cardinality({j \in at : j < i}) = k - 1]
        first(k) == IF k = 1 THEN 1 ELSE pos[k - 1] + 1
        last(k) == IF k = n + 1 THEN Len(s) ELSE pos[k] - 1
    IN  [k \in 1..(n + 1) |-> SubSeq(s, first(k), last(k))]

DigitValue(c) == CHOOSE d \in 0..9 : DigitChars[d + 1] = c

RECURSIVE ParseNat(_)
ParseNat(ds) ==
    IF ds = <<>> THEN 0
    ELSE 10 * ParseNat(SubSeq(ds, 1, Len(ds) - 1)) + DigitValue(ds[Len(ds)])

\* the command line of the bytes written: up to the first line terminator
CommandLine(w) == SubSeq(w, 1, FindCRLF(w) - 1)

\* what the server reads in the flushed bytes: the command line, whether it
\* carries the q flag, the payload block of ms, and what follows
ServerView(w) ==
    LET toks == Split(CommandLine(w))
        isSet == toks[1] = <<"m", "s">>
        block == IF isSet THEN ParseNat(toks[3]) + 2 ELSE 0
        rest == SubSeq(w, FindCRLF(w) + 2 + block, Len(w))
    IN  [quiet |-> \E i \in 3..Len(toks) : toks[i] = <<"q">>,
         sentinel |-> rest = <<"m", "n", CR, LF>>]

RecordList(n) == [i \in 1..n |-> i]

\* every classified response a parser can return
Replies ==
    {StatusResp(s) : s \in Statuses}
    \cup {DataResp(None)}
    \cup {DataResp(Some(RecordList(n))) : n \in 0..MaxRecords}

Tagged(c, s, r) == [cmd |-> c, sentinel |-> s, r |-> r]

\* The server processes the oldest flushed bytes.  When they are one
\* command of this layer it answers the primary command, or under the q flag
\* may stay silent, and answers the sentinel mn with the no-op status.  When
\* bytes of an abandoned command precede the command, what the server reads
\* is undefined: any reply or none, with or without the sentinel's.
ServerRespond(R) ==
    /\ pending # <<>>
    /\ LET p == Head(pending)
           views == IF p.clean THEN {ServerView(p.wire)}
                    ELSE [quiet : BOOLEAN, sentinel : BOOLEAN]
       IN  \E v \in views :
           \E reply \in {Some(r) : r \in R} \cup (IF v.quiet THEN {None} ELSE {}) :
             /\ inbound' = inbound
                    \o (IF is_some(reply) THEN <<Tagged(p.cmd, FALSE, unwrap(reply))>> ELSE <<>>)
                    \o (IF v.sentinel THEN <<Tagged(p.cmd, TRUE, StatusResp("NoOp"))>> ELSE <<>>)
             /\ served' = IF p.cmd = ncalls THEN Some(reply) ELSE served
    /\ pending' = Tail(pending)
    /\ UNCHANGED <<pc, call, ncalls, wire, io, resp, result, broken, unflushed, reused,
                   abandoned>>

----------------------------------------------------------------------------
(* The operations *)

Init ==
    /\ pc = "idle"
    /\ call = None
    /\ ncalls = 0
    /\ wire = <<>>
    /\ io = <<>>
    /\ pending = <<>>
    /\ served = None
    /\ inbound = <<>>
    /\ resp = None
    /\ result = Pending
    /\ broken = FALSE
    /\ unflushed = <<>>
    /\ reused = FALSE
    /\ abandoned = 0

\* The connection calls of an operation are numbered: its write_all calls,
\* then the flush, then the read.  a.fail names the one that fails (0: none).
NumWrites(a) == Len(Writes(a))
FlushPoint(a) == NumWrites(a) + 1
ReadPoint(a) == NumWrites(a) + 2

\* A call borrows the client mutably, so it starts when no other call's
\* future is alive: before the first call, after a call returned, or after
\* a call's future was dropped.  Nothing in the client refuses a call after
\* a transport error or after a dropped call.
CanCall(limit) ==
    /\ pc \in {"idle", "done", "dropped"}
    /\ ncalls < limit

\* the connection call a poll ends at without completing it: the one that
\* fails, or else the one at which the transport is not ready
EndPoint(a, from, stop) == IF a.fail \in from..(stop - 1) THEN a.fail ELSE stop

\* The bytes of connection call e the transport may have accepted when the
\* call fails or is suspended, given that `had` of them were accepted before:
\* write_all hands its buffer to the transport piece by piece, so any part
\* short of the whole; the flush and the read write nothing.
Parts(a, e, had) ==
    IF e <= NumWrites(a) /\ Len(Writes(a)[e]) > had
    THEN had..(Len(Writes(a)[e]) - 1)
    ELSE {had}

\* mutant: a failed write or flush is swallowed and the operation goes on
Run_SwallowWriteError(a, from, sofar, stop, part) ==
    LET last == stop - 1
        w == IF last < NumWrites(a) THEN last ELSE NumWrites(a)
        whole == Len(Concat(SubSeq(Writes(a), 1, w)))
        n == whole + (IF w < last THEN 0 ELSE (IF a.fail \in from..(stop - 1) THEN 0 ELSE part))
        flushed == last >= FlushPoint(a)
        full == Concat(Writes(a))
        out == unflushed \o SubSeq(full, sofar + 1, n)
    IN  /\ wire' = SubSeq(full, 1, n)
        /\ io' = [i \in 1..w |-> "write"] \o (IF flushed THEN <<"flush">> ELSE <<>>)
        /\ unflushed' = IF flushed THEN <<>> ELSE out
        /\ pending' = IF flushed
                      THEN Append(pending, [cmd |-> ncalls', wire |-> out, clean |-> out = full])
                      ELSE pending
        /\ result' = Pending
        /\ pc' = IF flushed THEN "sent" ELSE "running"
        /\ UNCHANGED <<broken, abandoned>>

\* mutant: the flush is issued before the last write of the command
Run_FlushBeforeLastWrite(a, from, sofar, stop, part) ==
    LET failed == a.fail \in from..(stop - 1)
        last == EndPoint(a, from, stop) - 1
        w == IF last < NumWrites(a) THEN last ELSE NumWrites(a)
        whole == Len(Concat(SubSeq(Writes(a), 1, w)))
        n == whole + (IF w < last THEN 0 ELSE part)
        flushed == last >= FlushPoint(a)
        full == Concat(Writes(a))
        out == unflushed \o SubSeq(full, sofar + 1, n)
    IN  /\ wire' = SubSeq(full, 1, n)
        /\ io' = IF flushed
                 THEN [i \in 1..(w - 1) |-> "write"] \o <<"flush", "write">>
                 ELSE [i \in 1..w |-> "write"]
        /\ unflushed' = IF flushed THEN <<>> ELSE out
        /\ pending' = IF flushed
                      THEN Append(pending, [cmd |-> ncalls', wire |-> out, clean |-> out = full])
                      ELSE pending
        /\ result' = IF failed THEN IoError ELSE Pending
        /\ pc' = IF failed THEN "done" ELSE IF flushed THEN "sent" ELSE "running"
        /\ broken' = (broken \/ failed)
        /\ abandoned' = abandoned + (IF failed THEN 1 ELSE 0)

\* One poll of the operation's future, which has written `sofar` bytes: it
\* performs its connection calls from number `from` on, each `.await?` in
\* turn, until the transport is not ready at call number `stop` (the future
\* is then suspended there) or a call fails (the `?` returns the transport
\* error at once).  The call it ends at has had `part` of its bytes accepted.
\* Bytes written stay in the connection until a flush hands them to the
\* server, those an earlier call left behind included.
Run(a, from, sofar, stop, part) ==
    LET failed == a.fail \in from..(stop - 1)
        last == EndPoint(a, from, stop) - 1
        w == IF last < NumWrites(a) THEN last ELSE NumWrites(a)
        whole == Len(Concat(SubSeq(Writes(a), 1, w)))
        n == whole + (IF w < last THEN 0 ELSE part)
        flushed == last >= FlushPoint(a)
        full == Concat(Writes(a))
        out == unflushed \o SubSeq(full, sofar + 1, n)
    IN  /\ wire' = SubSeq(full, 1, n)
        /\ io' = [i \in 1..w |-> "write"] \o (IF flushed THEN <<"flush">> ELSE <<>>)
        /\ unflushed' = IF flushed THEN <<>> ELSE out
        /\ pending' = IF flushed
                      THEN Append(pending, [cmd |-> ncalls', wire |-> out, clean |-> out = full])
                      ELSE pending
        /\ result' = IF failed THEN IoError ELSE Pending
        /\ pc' = IF failed THEN "done" ELSE IF flushed THEN "sent" ELSE "running"
        /\ broken' = (broken \/ failed)
        /\ abandoned' = abandoned + (IF failed THEN 1 ELSE 0)

\* The first poll of an operation: validation, then the connection calls up
\* to the first one at which the transport is not ready (stop = ReadPoint:
\* the command is written and flushed and the operation waits for the
\* response).  A validation error returns before the first write.
Issue(a, stop, part) ==
    /\ call' = Some(a)
    /\ ncalls' = ncalls + 1
    /\ served' = None
    /\ resp' = None
    /\ reused' = (reused \/ broken \/ pc = "dropped")
    /\ UNCHANGED inbound
    /\ IF is_some(Validate(a)) THEN
            /\ wire' = <<>>
            /\ io' = <<>>
            /\ result' = unwrap(Validate(a))
            /\ pc' = "done"
            /\ UNCHANGED <<pending, broken, unflushed, abandoned>>
       ELSE Run(a, 1, 0, stop, part)

\* A later poll of a suspended operation: the connection call it was
\* suspended at goes on, and those after it up to the next suspension.
poll ==
    /\ pc = "running"
    /\ UNCHANGED <<call, ncalls, served, inbound, resp, reused>>
    /\ LET a == unwrap(call)
           from == Len(io) + 1
           had == Len(wire) - Len(Concat(SubSeq(Writes(a), 1, Len(io))))
       IN  \E stop \in from..ReadPoint(a) :
           \E part \in Parts(a, EndPoint(a, from, stop),
                             IF EndPoint(a, from, stop) = from THEN had ELSE 0) :
               /\ stop > from \/ part > had
               /\ Run(a, from, Len(wire), stop, part)

\* The caller drops the future of an operation that is suspended, inside
\* the encoding or waiting for the response: the operation never resumes,
\* and what it wrote and what the server answers stay on the connection.
drop ==
    /\ pc \in {"running", "sent"}
    /\ abandoned < MaxAbandoned
    /\ pc' = "dropped"
    /\ abandoned' = abandoned + 1
    /\ UNCHANGED <<call, ncalls, wire, io, pending, served, inbound, resp, result,
                   broken, unflushed, reused>>

\* The arguments of a call; delta is None outside the arithmetic operations
\* and value is empty outside meta_set.
Call(op, k, v, q, o, d, f, x) ==
    [op |-> op, key |-> k, value |-> v, is_quiet |-> q, opaque |-> o,
     delta |-> d, meta_flags |-> f, fail |-> x]

\* the points of failure of the transport an input profile draws
Fails(I, a) ==
    IF I.failures /\ abandoned < MaxAbandoned THEN 0..ReadPoint(a) ELSE {0}

\* the connection calls at which the transport may be not ready during the
\* first poll; ReadPoint: it is ready for every write and for the flush
Stops(I, a) == IF I.failures THEN 1..ReadPoint(a) ELSE {ReadPoint(a)}

\* the same, without the points past a failing call, which is never passed
StopsBefore(I, a) ==
    {s \in Stops(I, a) : a.fail \in 1..FlushPoint(a) => s <= a.fail + 1}

meta_get(P, limit) ==
    /\ CanCall(limit)
    /\ \E I \in {J \in P : "get" \in J.ops} : \E k \in I.keys, q \in I.quiets, o \in I.opaques, f \in I.flags :
         \E x \in Fails(I, Call("get", k, <<>>, q, o, None, f, 0)) :
            \E s \in StopsBefore(I, Call("get", k, <<>>, q, o, None, f, x)) :
            \E p \in Parts(Call("get", k, <<>>, q, o, None, f, x), EndPoint(Call("get", k, <<>>, q, o, None, f, x), 1, s), 0) :
                Issue(Call("get", k, <<>>, q, o, None, f, x), s, p)

meta_set(P, limit) ==
    /\ CanCall(limit)
    /\ \E I \in {J \in P : "set" \in J.ops} : \E k \in I.keys, v \in I.values, q \in I.quiets, o \in I.opaques,
                      f \in I.flags :
         \E x \in Fails(I, Call("set", k, v, q, o, None, f, 0)) :
            \E s \in StopsBefore(I, Call("set", k, v, q, o, None, f, x)) :
            \E p \in Parts(Call("set", k, v, q, o, None, f, x), EndPoint(Call("set", k, v, q, o, None, f, x), 1, s), 0) :
                Issue(Call("set", k, v, q, o, None, f, x), s, p)

meta_delete(P, limit) ==
    /\ CanCall(limit)
    /\ \E I \in {J \in P : "delete" \in J.ops} : \E k \in I.keys, q \in I.quiets, o \in I.opaques, f \in I.flags :
         \E x \in Fails(I, Call("delete", k, <<>>, q, o, None, f, 0)) :
            \E s \in StopsBefore(I, Call("delete", k, <<>>, q, o, None, f, x)) :
            \E p \in Parts(Call("delete", k, <<>>, q, o, None, f, x), EndPoint(Call("delete", k, <<>>, q, o, None, f, x), 1, s), 0) :
                Issue(Call("delete", k, <<>>, q, o, None, f, x), s, p)

meta_increment(P, limit) ==
    /\ CanCall(limit)
    /\ \E I \in {J \in P : "increment" \in J.ops} : \E k \in I.keys, q \in I.quiets, o \in I.opaques, d \in I.deltas,
                      f \in I.flags :
         \E x \in Fails(I, Call("increment", k, <<>>, q, o, d, f, 0)) :
            \E s \in StopsBefore(I, Call("increment", k, <<>>, q, o, d, f, x)) :
            \E p \in Parts(Call("increment", k, <<>>, q, o, d, f, x), EndPoint(Call("increment", k, <<>>, q, o, d, f, x), 1, s), 0) :
                Issue(Call("increment", k, <<>>, q, o, d, f, x), s, p)

meta_decrement(P, limit) ==
    /\ CanCall(limit)
    /\ \E I \in {J \in P : "decrement" \in J.ops} : \E k \in I.keys, q \in I.quiets, o \in I.opaques, d \in I.deltas,
                      f \in I.flags :
         \E x \in Fails(I, Call("decrement", k, <<>>, q, o, d, f, 0)) :
            \E s \in StopsBefore(I, Call("decrement", k, <<>>, q, o, d, f, x)) :
            \E p \in Parts(Call("decrement", k, <<>>, q, o, d, f, x), EndPoint(Call("decrement", k, <<>>, q, o, d, f, x), 1, s), 0) :
                Issue(Call("decrement", k, <<>>, q, o, d, f, x), s, p)

\* The rest of the operation: drive_receive returns the next classified
\* response of the connection (or the transport error of the read), and the
\* operation's match maps it to the result.
drive_receive ==
    /\ pc = "sent"
    /\ LET a == unwrap(call) IN
       IF a.fail = ReadPoint(a) THEN
            /\ result' = IoError
            /\ broken' = TRUE
            /\ abandoned' = abandoned + 1
            /\ UNCHANGED <<inbound, resp, io>>
       ELSE
            /\ inbound # <<>>
            /\ inbound' = Tail(inbound)
            /\ resp' = Some(Head(inbound))
            /\ io' = Append(io, "read")
            /\ result' = Classify(a.op, Head(inbound).r)
            /\ UNCHANGED <<broken, abandoned>>
    /\ pc' = "done"
    /\ UNCHANGED <<call, ncalls, wire, pending, served, unflushed, reused>>

----------------------------------------------------------------------------
(* Inputs *)

FOO == <<"f", "o", "o">>

Ops == {"get", "set", "delete", "increment", "decrement"}

FlagTokens == { <<"O", "9">>, <<"D", "1">>, <<"M", "D">>, <<"q">>, <<"N", "6">> }

FlagLists == UNION {[1..n -> FlagTokens] : n \in 0..MaxFlags}

MetaFlagArgs == {None} \cup {Some(l) : l \in FlagLists}

OpaqueArgs == {None, Some(<<"4", "2">>), Some(Rep("x", MAX_OPAQUE_LENGTH + 1))}

DeltaArgs == {None, Some(1), Some(5), Some(10)}

Values == {<<>>, <<"b", "a", "r">>, Rep("v", 12)}

\* One operation over the whole argument space, the keys and opaques at
\* their length bounds, and one command of each verb over a transport that
\* may fail or be not ready at any connection call.
EncodeCalls ==
    { [keys |-> {FOO, Rep("k", MAX_KEY_LENGTH + 1)}, values |-> Values,
       quiets |-> BOOLEAN, opaques |-> OpaqueArgs, deltas |-> DeltaArgs,
       flags |-> MetaFlagArgs, ops |-> Ops, failures |-> FALSE],
      [keys |-> {Rep("k", MAX_KEY_LENGTH)}, values |-> Values,
       quiets |-> BOOLEAN, opaques |-> {None, Some(Rep("x", MAX_OPAQUE_LENGTH))},
       deltas |-> {None, Some(5)}, flags |-> {None, Some(<< <<"N", "6">> >>)},
       ops |-> Ops, failures |-> FALSE],
      [keys |-> {FOO}, values |-> {<<"b", "a", "r">>}, quiets |-> BOOLEAN,
       opaques |-> {None}, deltas |-> {Some(5)}, flags |-> {Some(<< <<"N", "6">> >>)},
       ops |-> Ops, failures |-> TRUE] }

\* Sequences of operations on one connection: every verb, with and without
\* quiet mode, over a transport that is always ready, and fetches over a
\* transport that may fail or be not ready at any byte of any connection
\* call.
ConnCalls ==
    { [keys |-> {FOO}, values |-> {<<"b", "a", "r">>}, quiets |-> BOOLEAN,
       opaques |-> {None}, deltas |-> {None}, flags |-> {None},
       ops |-> Ops, failures |-> FALSE],
      [keys |-> {FOO}, values |-> {<<"b", "a", "r">>}, quiets |-> {FALSE},
       opaques |-> {None}, deltas |-> {None}, flags |-> {None},
       ops |-> {"get"}, failures |-> TRUE] }

\* the responses the server gives on a connection that carries several
\* operations: a miss, a success without data, a hit with one record
ConnReplies ==
    {StatusResp("NotFound"), StatusResp("Stored"), DataResp(Some(RecordList(1)))}

Next ==
    \/ meta_get(EncodeCalls, 1)
    \/ meta_set(EncodeCalls, 1)
    \/ meta_delete(EncodeCalls, 1)
    \/ meta_increment(EncodeCalls, 1)
    \/ meta_decrement(EncodeCalls, 1)
    \/ poll
    \/ drop
    \/ ServerRespond(Replies)
    \/ drive_receive

Spec == Init /\ [][Next]_vars

NextConn ==
    \/ meta_get(ConnCalls, MaxCalls)
    \/ meta_set(ConnCalls, MaxCalls)
    \/ meta_delete(ConnCalls, MaxCalls)
    \/ meta_increment(ConnCalls, MaxCalls)
    \/ meta_decrement(ConnCalls, MaxCalls)
    \/ poll
    \/ drop
    \/ ServerRespond(ConnReplies)
    \/ drive_receive

SpecConn == Init /\ [][NextConn]_vars

----------------------------------------------------------------------------
(* What the claims speak of *)

A == unwrap(call)

Called == is_some(call)

\* the command and, under quiet mode, the sentinel are written and flushed
Flushed == \E i \in 1..Len(io) : io[i] = "flush"

\* the tokens of the command line on the wire: verb, key, (datalen,) flags
Tokens == Split(CommandLine(wire))

WireFlags == SubSeq(Tokens, IF A.op = "set" THEN 4 ELSE 3, Len(Tokens))

CallerFlags == IF is_some(A.meta_flags) THEN unwrap(A.meta_flags) ELSE <<>>

IsO(f) == starts_with(f, "O")
IsD(f) == starts_with(f, "D")
IsM(f) == starts_with(f, "M")

Distinct(s) == \A i, j \in 1..Len(s) : s[i] = s[j] => i = j

Arithmetic == A.op \in {"increment", "decrement"}

NothingOnTheWire == wire = <<>> /\ io = <<>>

----------------------------------------------------------------------------
\* C1: every operation called with a key longer than 250 bytes, whatever the
\* other arguments, returns a validation error, and the connection has seen
\* no byte, no flush and no read.
C1_LongKeyRejected ==
    (Called /\ Len(A.key) > MAX_KEY_LENGTH) =>
        /\ pc = "done"
        /\ result = Err("Validation", "KeyTooLong")
        /\ NothingOnTheWire

C1_Witness ==
    /\ Called /\ pc = "done"
    /\ Len(A.key) = MAX_KEY_LENGTH + 1
    /\ A.op = "decrement" /\ A.is_quiet
    /\ A.opaque = Some(<<"4", "2">>) /\ A.delta = Some(5)
    /\ A.meta_flags = Some(<< <<"N", "6">> >>)
    /\ result.err = "Validation"
    /\ wire = <<>>

\* C2: every operation called with a key of valid length and an opaque longer
\* than 32 bytes returns a validation error and has written no byte, not even
\* the verb.
C2_LongOpaqueRejected ==
    (Called /\ Len(A.key) <= MAX_KEY_LENGTH
            /\ is_some(A.opaque) /\ Len(unwrap(A.opaque)) > MAX_OPAQUE_LENGTH) =>
        /\ pc = "done"
        /\ result = Err("Validation", "OpaqueTooLong")
        /\ NothingOnTheWire

C2_Witness ==
    /\ Called /\ pc = "done"
    /\ A.key = FOO
    /\ A.op = "set" /\ A.value = <<"b", "a", "r">>
    /\ is_some(A.opaque) /\ Len(unwrap(A.opaque)) = MAX_OPAQUE_LENGTH + 1
    /\ result.err = "Validation"
    /\ wire = <<>>

\* C3: on a connection used as required (no call after a transport error or
\* a dropped call), an operation that returns without a transport error has consumed
\* every response the server produces for the bytes it wrote, the sentinel's
\* included, and the response it read belongs to its own command.
C3_ResponsesConsumedInOrder ==
    (pc = "done" /\ ~broken /\ ~reused) =>
        /\ pending = <<>>
        /\ inbound = <<>>
        /\ is_some(resp) => unwrap(resp).cmd = ncalls

\* C4: on a connection used as required, a quiet operation whose primary
\* command the server left unanswered, or answered with the no-op status,
\* returns Ok(None).
C4_QuietMissReturnsNone ==
    (/\ pc = "done" /\ is_some(resp) /\ ~reused
     /\ A.is_quiet
     /\ is_some(served)
     /\ unwrap(served) \in {None, Some(StatusResp("NoOp"))}) =>
        result = OkNone

\* C5: with an explicit opaque and a caller flag beginning with O, the command
\* line carries exactly one O flag, O<opaque>.
C5_OneOpaqueFlag ==
    (/\ Called /\ Flushed
     /\ is_some(A.opaque)
     /\ \E i \in 1..Len(CallerFlags) : IsO(CallerFlags[i])) =>
        SelectSeq(WireFlags, IsO) = << <<"O">> \o unwrap(A.opaque) >>

C5_Witness ==
    /\ Called /\ Flushed
    /\ A.op = "increment" /\ A.delta = None
    /\ A.opaque = Some(<<"4", "2">>)
    /\ A.meta_flags = Some(<< <<"O", "9">>, <<"N", "6">> >>)
    /\ WireFlags = << <<"O", "4", "2">>, <<"N", "6">> >>

\* C6: whatever the delta parameter and the caller flags are, no D1
\* token is on the wire of an increment or decrement, and a delta d other
\* than 1 is written as D<d>.
C6_NeverD1 ==
    (Called /\ Flushed /\ Arithmetic) =>
        /\ \A i \in 1..Len(WireFlags) : WireFlags[i] # <<"D", "1">>
        /\ (is_some(A.delta) /\ unwrap(A.delta) # 1) =>
              \E i \in 1..Len(WireFlags) :
                  WireFlags[i] = <<"D">> \o to_string(unwrap(A.delta))

\* C7: a decrement writes MD as the first token after the key; an increment
\* writes no flag beginning with M, whatever the caller flags are.
C7_ModeFlag ==
    (Called /\ Flushed) =>
        /\ A.op = "decrement" =>
              /\ Len(Tokens) >= 3
              /\ Tokens[2] = A.key
              /\ Tokens[3] = <<"M", "D">>
        /\ A.op = "increment" => SelectSeq(WireFlags, IsM) = <<>>

C7_Witness ==
    /\ Called /\ Flushed
    /\ A.op = "increment"
    /\ A.opaque = Some(<<"4", "2">>)
    /\ A.meta_flags = Some(<< <<"M", "D">>, <<"N", "6">> >>)
    /\ WireFlags = << <<"O", "4", "2">>, <<"N", "6">> >>

\* C8 as stated: no flag token is written more than once, for every input.
C8_NoFlagTwice ==
    (Called /\ Flushed) => Distinct(WireFlags)

\* C8 amended: when the caller's flag list repeats no token, no flag token is
\* written more than once.
C8_NoFlagTwiceForDistinctCallerFlags ==
    (Called /\ Flushed /\ Distinct(CallerFlags)) => Distinct(WireFlags)

C8_Witness ==
    /\ Called /\ Flushed
    /\ A.op = "decrement" /\ A.is_quiet
    /\ A.opaque = None /\ A.delta = None
    /\ A.meta_flags = Some(<< <<"q">>, <<"M", "D">> >>)
    /\ WireFlags = << <<"M", "D">>, <<"q">> >>

\* C9: meta_delete maps the bare status exists to an error, Protocol(Exists),
\* which differs from the error the conversion gives for every other status.
C9_DeleteExistsIsConflict ==
    (/\ pc = "done" /\ is_some(resp) /\ A.op = "delete"
     /\ unwrap(resp).r = StatusResp("Exists")) =>
        /\ result = Protocol("Exists")
        /\ \A s \in Statuses \ {"Exists"} : result # StatusIntoError(s)

C9_Witness ==
    /\ pc = "done" /\ is_some(resp) /\ A.op = "delete"
    /\ unwrap(resp).r = StatusResp("Exists")
    /\ result.kind = "Err"

\* the "success, no data" statuses of each verb
SuccessStatuses(op) ==
    CASE op = "get" -> {"NotFound", "NoOp"}
      [] op = "delete" -> {"Deleted", "NoOp"}
      [] OTHER -> {"Stored", "NoOp"}

\* C10: a bare status of the verb's success set gives Ok(None); every other
\* bare status gives an error carrying that status; a data response with
\* records gives the first record.
C10_Classification ==
    (pc = "done" /\ is_some(resp)) =>
        LET r == unwrap(resp).r IN
        /\ (r.kind = "Status" /\ r.status \in SuccessStatuses(A.op)) => result = OkNone
        /\ (r.kind = "Status" /\ r.status \notin SuccessStatuses(A.op)) =>
              (result.kind = "Err" /\ result.status = r.status)
        /\ (r.kind = "Data" /\ is_some(r.data) /\ unwrap(r.data) # <<>>) =>
              result = OkSome(unwrap(r.data)[1])

C10_Witness ==
    /\ pc = "done" /\ is_some(resp) /\ A.op = "get"
    /\ unwrap(resp).r = DataResp(Some(<<1, 2>>))
    /\ result = OkSome(1)

----------------------------------------------------------------------------
\* the flags the typed parameters put before the caller's flags
TypedFlagCount ==
    (IF A.op = "decrement" THEN 1 ELSE 0)
    + (IF is_some(A.opaque) THEN 1 ELSE 0)
    + (IF is_some(A.delta) /\ unwrap(A.delta) # 1 THEN 1 ELSE 0)

\* the flags on the wire between the typed parameters' flags and the q flag
WrittenCallerFlags ==
    SubSeq(WireFlags, TypedFlagCount + 1, Len(WireFlags) - (IF A.is_quiet THEN 1 ELSE 0))

\* a caller flag the suppression rules let through
Remaining(f) ==
    /\ ~starts_with(f, "M")
    /\ ~starts_with(f, "q")
    /\ ~(starts_with(f, "O") /\ is_some(A.opaque))
    /\ ~(starts_with(f, "D") /\ is_some(A.delta))

\* C11: caller flags beginning with M or q are dropped; the caller flags
\* written are exactly the remaining ones, once per occurrence and in the
\* caller's order; without the quiet parameter no q flag and no sentinel is
\* written, even when the caller lists q.
C11_CallerFlagsFiltered ==
    (Called /\ Flushed) =>
        /\ WrittenCallerFlags = SelectSeq(CallerFlags, Remaining)
        /\ ~A.is_quiet =>
              /\ \A i \in 1..Len(WireFlags) : WireFlags[i] # <<"q">>
              /\ ~ServerView(wire).sentinel

C11_Witness ==
    /\ Called /\ Flushed
    /\ A.op = "increment" /\ ~A.is_quiet
    /\ A.opaque = None /\ A.delta = None
    /\ A.meta_flags = Some(<< <<"q">>, <<"N", "6">> >>)
    /\ wire = <<"m", "a", " ", "f", "o", "o", " ", "N", "6", CR, LF>>

----------------------------------------------------------------------------
\* the bytes after the command line's terminator
AfterCommandLine == SubSeq(wire, FindCRLF(wire) + 2, Len(wire))

\* the payload block of meta_set: the payload and its terminator
PayloadBlock == IF A.op = "set" THEN A.value \o CRLF ELSE <<>>

Sentinel == <<"m", "n", CR, LF>>

\* the flush is the last connection call before the read
FlushAfterWrites ==
    \E k \in 1..Len(io) :
        /\ io[k] = "flush"
        /\ \A i \in 1..(k - 1) : io[i] = "write"
        /\ \A i \in (k + 1)..Len(io) : io[i] = "read"

\* C12: under quiet mode q is the last flag of the command line and the
\* sentinel mn\r\n follows the command's terminator (for meta_set the payload
\* block's terminator) exactly once, before the flush; without quiet mode
\* neither the q flag nor the sentinel is written.
C12_QuietFlagAndSentinel ==
    (Called /\ Flushed) =>
        /\ FlushAfterWrites
        /\ A.is_quiet =>
              /\ Len(WireFlags) >= 1
              /\ WireFlags[Len(WireFlags)] = <<"q">>
              /\ AfterCommandLine = PayloadBlock \o Sentinel
        /\ ~A.is_quiet =>
              /\ \A i \in 1..Len(WireFlags) : WireFlags[i] # <<"q">>
              /\ AfterCommandLine = PayloadBlock

C12_Witness ==
    /\ Called /\ Flushed
    /\ A.op = "set" /\ A.is_quiet
    /\ A.value = <<"b", "a", "r">>
    /\ A.opaque = Some(<<"4", "2">>)
    /\ A.meta_flags = Some(<< <<"N", "6">> >>)
    /\ wire = <<"m", "s", " ", "f", "o", "o", " ", "3", " ", "O", "4", "2", " ", "N", "6",
                " ", "q", CR, LF, "b", "a", "r", CR, LF, "m", "n", CR, LF>>

----------------------------------------------------------------------------
\* C13: in meta_increment and meta_decrement the caller's D flags are dropped
\* exactly when the delta parameter is supplied, whatever its value (with a
\* delta of 1 no D flag at all is written); without the delta parameter the
\* caller's D flags are written unchanged.
C13_CallerDeltaFlags ==
    (Called /\ Flushed /\ Arithmetic) =>
        /\ is_some(A.delta) =>
              SelectSeq(WireFlags, IsD) =
                  (IF unwrap(A.delta) = 1 THEN <<>>
                   ELSE << <<"D">> \o to_string(unwrap(A.delta)) >>)
        /\ ~is_some(A.delta) =>
              SelectSeq(WireFlags, IsD) = SelectSeq(CallerFlags, IsD)

C13_Witness ==
    /\ Called /\ Flushed
    /\ A.op = "decrement"
    /\ A.delta = Some(1)
    /\ A.opaque = None /\ ~A.is_quiet
    /\ A.meta_flags = Some(<< <<"D", "1">>, <<"D", "1">> >>)
    /\ WireFlags = << <<"M", "D">> >>

----------------------------------------------------------------------------
\* the bytes of the wire from position i to the next line terminator, which
\* must start at position i + n
BlockAt(i, n) == SubSeq(wire, i, i + n - 1)

\* C14: a successful meta_set writes `ms `, the key, a space, the decimal
\* length, the flags, the terminator, the payload, the terminator; the
\* length written is the number of payload bytes between the terminators.
C14_SetFraming ==
    (Called /\ Flushed /\ A.op = "set") =>
        LET e == FindCRLF(wire)
            n == ParseNat(Tokens[3])
        IN  /\ SubSeq(wire, 1, 3) = <<"m", "s", SP>>
            /\ Len(Tokens) >= 3
            /\ Tokens[1] = <<"m", "s">>
            /\ Tokens[2] = A.key
            /\ Tokens[3] # <<>>
            /\ \A i \in 1..Len(Tokens[3]) : \E d \in 1..10 : Tokens[3][i] = DigitChars[d]
            /\ n = Len(A.value)
            /\ BlockAt(e + 2, n) = A.value
            /\ SubSeq(wire, e + 2 + n, e + 3 + n) = CRLF
            /\ Len(wire) = e + 3 + n + (IF A.is_quiet THEN 4 ELSE 0)

C14_Witness ==
    /\ Called /\ Flushed /\ A.op = "set"
    /\ Len(A.value) = 12
    /\ A.opaque = Some(<<"4", "2">>)
    /\ Tokens[3] = <<"1", "2">>

----------------------------------------------------------------------------
\* the call passed validation and one of its writes, or its flush, failed
WriteOrFlushFailed ==
    /\ Called
    /\ ~is_some(Validate(A))
    /\ A.fail \in 1..(Len(Writes(A)) + 1)

\* the number of bytes of the first k write_all calls of the call
BytesOf(k) == Len(Concat(SubSeq(Writes(A), 1, IF k < Len(Writes(A)) THEN k ELSE Len(Writes(A)))))

\* the bytes written are the first bytes of the command, and end inside the
\* write_all call that follows the completed ones
WireIsPrefix ==
    /\ Len(wire) <= Len(Concat(Writes(A)))
    /\ wire = SubSeq(Concat(Writes(A)), 1, Len(wire))
    /\ BytesOf(Len(io)) <= Len(wire)
    /\ Len(wire) <= BytesOf(Len(io) + 1)

\* C15: when a write or the flush of an operation fails, the operation
\* returns the transport error at once: no connection call follows the
\* failed one (no further byte, no flush, no read), the bytes written are
\* those of the writes before it and what the failed write got through, and
\* the command is not sent again.
C15_WriteErrorPropagates ==
    WriteOrFlushFailed =>
        /\ Len(io) <= A.fail - 1
        /\ \A i \in 1..Len(io) : io[i] = "write"
        /\ WireIsPrefix
        /\ Len(wire) <= BytesOf(A.fail)
        /\ resp = None
        /\ \A i \in 1..Len(pending) : pending[i].cmd # ncalls
        /\ pc \in {"running", "dropped", "done"}
        /\ pc = "done" <=> result = IoError
        /\ pc = "done" => Len(io) = A.fail - 1

C15_Witness ==
    /\ WriteOrFlushFailed
    /\ A.op = "set" /\ A.is_quiet /\ A.value = <<"b", "a", "r">>
    /\ A.fail = 2
    /\ pc = "done" /\ result = IoError
    /\ io = <<"write">>
    /\ wire = <<"m", "s", " ", "f", "o">>
    /\ unflushed = wire

\* the call passed validation and the transport did not fail
NoTransportError ==
    /\ Called
    /\ ~is_some(Validate(A))
    /\ A.fail = 0

FlushCount == Cardinality({k \in 1..Len(io) : io[k] = "flush"})

\* C16: a valid call without transport error flushes exactly once, after
\* every write of the command and of the sentinel, and before the read: no
\* write follows the flush and no read precedes it.  (A call whose future
\* the caller drops before the flush does not get that far.)
C16_FlushOnceAfterLastWrite ==
    NoTransportError =>
        LET w == Len(Writes(A)) IN
        /\ FlushCount <= 1
        /\ Len(io) <= w + 2
        /\ \A k \in 1..Len(io) :
               io[k] = (IF k <= w THEN "write" ELSE IF k = w + 1 THEN "flush" ELSE "read")
        /\ WireIsPrefix
        /\ Flushed => wire = Concat(Writes(A))
        /\ pc \in {"sent", "done"} =>
               /\ FlushCount = 1
               /\ wire = Concat(Writes(A))
               /\ A.is_quiet => SubSeq(wire, Len(wire) - 3, Len(wire)) = <<"m", "n", CR, LF>>
        /\ pc = "running" => FlushCount = 0
        /\ pc = "sent" => Len(io) = w + 1
        /\ Len(io) = w + 2 <=> (pc = "done" /\ is_some(resp))

C16_Witness ==
    /\ NoTransportError
    /\ A.op = "set" /\ A.is_quiet /\ A.value = <<"b", "a", "r">>
    /\ pc = "done"
    /\ io = [i \in 1..Len(Writes(A)) |-> "write"] \o <<"flush", "read">>
    /\ ncalls = 2 /\ ~reused

----------------------------------------------------------------------------
\* the bytes w with ` MD` inserted after the command name and the key
WithModeFlag(w, key) ==
    LET n == 3 + Len(key) IN
    SubSeq(w, 1, n) \o <<SP, "M", "D">> \o SubSeq(w, n + 1, Len(w))

\* C17: for the same arguments meta_decrement writes the bytes of
\* meta_increment with ` MD` inserted immediately after the key, and both
\* operations map every response to the same result.
C17_DecrementIsIncrementWithMode ==
    (Called /\ Arithmetic) =>
        /\ Flushed =>
               /\ A.op = "decrement" =>
                      wire = WithModeFlag(Concat(meta_increment_writes(A)), A.key)
               /\ A.op = "increment" =>
                      WithModeFlag(wire, A.key) = Concat(meta_decrement_writes(A))
        /\ \A r \in Replies : meta_increment_result(r) = meta_decrement_result(r)
        /\ (pc = "done" /\ is_some(resp)) =>
               /\ result = meta_increment_result(unwrap(resp).r)
               /\ result = meta_decrement_result(unwrap(resp).r)

C17_Witness ==
    /\ Called /\ Flushed /\ A.op = "decrement"
    /\ A.opaque = Some(<<"4", "2">>) /\ A.delta = Some(5) /\ A.is_quiet
    /\ A.meta_flags = Some(<< <<"N", "6">> >>)
    /\ pc = "done" /\ is_some(resp)
    /\ unwrap(resp).r = DataResp(Some(RecordList(1)))
    /\ result = OkSome(1)

----------------------------------------------------------------------------
\* C18: response interpretation is total: whatever classified response the
\* parser returns, the operation returns a result or an error value and
\* never aborts.
C18_NoPanic ==
    result.kind # "Panic"

====
